---- MODULE Spec2Model ----
(***************************************************************************)
(* Model of src/app.py: the Flask translation facade.                      *)
(*   cached_translation  - the lru_cache-wrapped provider dispatcher       *)
(*   translate           - POST /translate                                 *)
(*   batch_translate     - POST /batch-translate                           *)
(* Texts are sequences of one-character strings so that strip() and len()  *)
(* are computed, not assumed.  Translated texts, language codes and        *)
(* service names are opaque atoms (TLA+ strings).                          *)
(***************************************************************************)
EXTENDS Integers, Sequences, FiniteSets, TLC

(***************************************************************************)
(* Sizes.  The three limits of the program are scaled down so that the     *)
(* cases at and beyond each limit are reachable by exhaustive search:      *)
(*   maxsize     stands for lru_cache(maxsize=1000)      (app.py:13)       *)
(*   MaxTextLen  stands for the 5000 character cap       (app.py:46,215)   *)
(*   MaxTexts    stands for the 100 item batch cap       (app.py:200)      *)
(***************************************************************************)
maxsize == 2
MaxTextLen == 1
MaxTexts == 2
NThreads == 2

(***************************************************************************)
(* JSON values of a request body.                                          *)
(***************************************************************************)
Absent == [t |-> "absent"]                \* key missing from the JSON object
JNull == [t |-> "null"]                   \* JSON null  (Python None)
JNum == [t |-> "num"]                     \* a non-zero JSON number (truthy, not str)
JStr(s) == [t |-> "str", s |-> s]         \* JSON string, s a sequence of characters
JList(items) == [t |-> "list", items |-> items]

NoLang == "<absent>"                      \* language/service key missing
Unhashable == "<list>"                    \* a JSON array given where a name is expected

NONE == "<None>"                          \* Python None as a return value

\* str.strip(): drop leading, then trailing, whitespace
RECURSIVE lstrip(_)
lstrip(s) == IF s # <<>> /\ Head(s) = " " THEN lstrip(Tail(s)) ELSE s
RECURSIVE rstrip(_)
rstrip(s) == IF s # <<>> /\ s[Len(s)] = " " THEN rstrip(SubSeq(s, 1, Len(s) - 1)) ELSE s
strip(s) == rstrip(lstrip(s))

\* dict.get(key, default)
Get(v, default) == IF v = NoLang THEN default ELSE v

(***************************************************************************)
(* State.                                                                  *)
(*   cache     the lru_cache of cached_translation: a sequence of          *)
(*             [key, val] entries, least recently used first               *)
(*   resp      the response of the last request handled                    *)
(*   req       the last request: [endpoint, data]                          *)
(*   threads   the requests in flight when handlers interleave             *)
(* History (not program state):                                            *)
(*   calls     the cached_translation calls of the last request, in order  *)
(*   prevCall  the cached_translation call that preceded them, if any      *)
(*   useOrder  cached keys, least recently requested first                 *)
(*   insOrder  cached keys, earliest inserted first                        *)
(*   owners    for each cached key, the arguments of the call that stored  *)
(*             its entry                                                   *)
(*   evictions the evictions of the last request                           *)
(***************************************************************************)
VARIABLES cache, resp, req, threads, calls, prevCall, useOrder, insOrder, owners, evictions

vars == <<cache, resp, req, threads, calls, prevCall, useOrder, insOrder, owners, evictions>>

(***************************************************************************)
(* lru_cache                                                               *)
(***************************************************************************)
\* the key drops the service name
make_key_no_service(text, source_lang, target_lang, service) ==
    <<text, source_lang, target_lang, "*">>

\* functools._make_key for four positional arguments
make_key(text, source_lang, target_lang, service) ==
    <<text, source_lang, target_lang, service>>

\* hash(key) raises TypeError when an argument is a list
Hashable(args) == \A i \in 2..4 : args[i] # Unhashable

CacheKeys(c) == {c[i].key : i \in DOMAIN c}

RemoveKey(ks, k) == SelectSeq(ks, LAMBDA x : x # k)
Touch(ks, k) == Append(RemoveKey(ks, k), k)

CacheGet(c, k) == (CHOOSE i \in DOMAIN c : c[i].key = k)

\* a hit leaves the entry where it is (first-in first-out)
lru_hit_no_move(c, k) == c

\* cache hit: the link is moved to the most recently used end
lru_hit(c, k) ==
    LET i == CacheGet(c, k)
    IN Append(SelectSeq(c, LAMBDA e : e.key # k), c[i])

\* the insertion does not look for the key again
lru_insert_no_recheck(c, k, v) ==
    IF Len(c) < maxsize THEN Append(c, [key |-> k, val |-> v])
    ELSE Append(Tail(c), [key |-> k, val |-> v])

\* after the wrapped function returned: store the result unless the key
\* was added meanwhile; when full, the oldest link is dropped first
lru_insert(c, k, v) ==
    IF k \in CacheKeys(c) THEN c
    ELSE IF Len(c) < maxsize THEN Append(c, [key |-> k, val |-> v])
    ELSE Append(Tail(c), [key |-> k, val |-> v])

(***************************************************************************)
(* cached_translation                                                      *)
(***************************************************************************)
Services == {"google", "microsoft", "mymemory", "deepl"}

\* an unknown service name is rejected
select_translator_strict(service) ==
    IF service = "google" THEN "GoogleTranslator"
    ELSE IF service = "microsoft" THEN "MicrosoftTranslator"
    ELSE IF service = "mymemory" THEN "MyMemoryTranslator"
    ELSE "unsupported"

\* the if/elif chain choosing the deep_translator class
select_translator(service) ==
    IF service = "google" THEN "GoogleTranslator"
    ELSE IF service = "microsoft" THEN "MicrosoftTranslator"
    ELSE IF service = "mymemory" THEN "MyMemoryTranslator"
    ELSE "GoogleTranslator"

\* what the provider does with one call: a translation or an exception
Translations == {"x", ""}
ProviderErrors == {"boom"}
Outcomes == [ok : {TRUE}, v : Translations] \cup [ok : {FALSE}, v : ProviderErrors]

\* the exception escapes the function
translation_body_raises(strategy, outcome) ==
    IF outcome.ok THEN [raised |-> FALSE, ret |-> outcome.v, msg |-> "", logged |-> ""]
    ELSE [raised |-> TRUE, ret |-> NONE, msg |-> outcome.v, logged |-> ""]

\* the body of cached_translation: try: return translator.translate(text)
\* except Exception as e: log str(e), return None
translation_body(strategy, outcome) ==
    IF outcome.ok THEN [raised |-> FALSE, ret |-> outcome.v, msg |-> "", logged |-> ""]
    ELSE [raised |-> FALSE, ret |-> NONE, msg |-> "", logged |-> outcome.v]

\* the memo and its history, threaded through the calls of one request
Memo ==
    [cache |-> cache, useOrder |-> useOrder, insOrder |-> insOrder, owners |-> owners,
     evictions |-> <<>>]

\* a hit: the cache, and the history's bookkeeping of it
MemoHit(m, k) ==
    [m EXCEPT !.cache = lru_hit(m.cache, k), !.useOrder = Touch(m.useOrder, k)]

\* an insertion: the cache, and the history's bookkeeping of it
MemoInsert(m, k, args, v) ==
    LET c2 == lru_insert(m.cache, k, v)
        gone == CacheKeys(m.cache) \ CacheKeys(c2)
        dropUse == SelectSeq(m.useOrder, LAMBDA x : x \notin gone)
        dropIns == SelectSeq(m.insOrder, LAMBDA x : x \notin gone)
        added == k \in CacheKeys(c2) /\ k \notin CacheKeys(m.cache)
    IN [cache |-> c2,
        useOrder |-> IF added THEN Append(dropUse, k) ELSE dropUse,
        insOrder |-> IF added THEN Append(dropIns, k) ELSE dropIns,
        owners |-> [x \in CacheKeys(c2) |-> IF added /\ x = k THEN args ELSE m.owners[x]],
        evictions |-> IF gone = {} THEN m.evictions
                      ELSE Append(m.evictions,
                                  [evicted |-> gone,
                                   lru |-> Head(m.useOrder),
                                   oldest |-> Head(m.insOrder),
                                   val |-> v])]

\* the result of a call before anything happened
NoResult(m, args, key) ==
    [m |-> m, args |-> args, key |-> key, raised |-> FALSE, msg |-> "", ret |-> NONE,
     called |-> FALSE, strategy |-> "", hit |-> FALSE, owner |-> args, logged |-> ""]

\* the cache is never consulted
cached_translation_no_cache(m, text, source_lang, target_lang, service, outcome) ==
    LET args == <<text, source_lang, target_lang, service>>
        key == make_key(text, source_lang, target_lang, service)
        strategy == select_translator(service)
        r == translation_body(strategy, outcome)
    IN IF ~Hashable(args)
       THEN [NoResult(m, args, key) EXCEPT !.raised = TRUE,
                                           !.msg = "unhashable type: 'list'"]
       ELSE [NoResult(m, args, key) EXCEPT !.ret = r.ret, !.called = TRUE,
                                           !.strategy = strategy, !.logged = r.logged]

\* one call of the decorated cached_translation, handlers not interleaved:
\* hash the key; on a hit return the cached value; otherwise run the body
\* and store whatever it returns (None included); an exception of the body
\* propagates and nothing is stored
cached_translation(m, text, source_lang, target_lang, service, outcome) ==
    LET args == <<text, source_lang, target_lang, service>>
        key == make_key(text, source_lang, target_lang, service)
        strategy == select_translator(service)
        r == translation_body(strategy, outcome)
    IN IF ~Hashable(args)
       THEN [NoResult(m, args, key) EXCEPT !.raised = TRUE,
                                           !.msg = "unhashable type: 'list'"]
       ELSE IF key \in CacheKeys(m.cache)
       THEN [NoResult(m, args, key) EXCEPT !.m = MemoHit(m, key),
                                           !.ret = m.cache[CacheGet(m.cache, key)].val,
                                           !.hit = TRUE,
                                           !.owner = m.owners[key]]
       ELSE IF r.raised
       THEN [NoResult(m, args, key) EXCEPT !.raised = TRUE, !.msg = r.msg,
                                           !.called = TRUE, !.strategy = strategy]
       ELSE [NoResult(m, args, key) EXCEPT !.m = MemoInsert(m, key, args, r.ret),
                                           !.ret = r.ret, !.called = TRUE,
                                           !.strategy = strategy, !.logged = r.logged]

\* the history record of one call
CallRec(r, endpoint) ==
    [endpoint |-> endpoint, args |-> r.args, ret |-> r.ret, raised |-> r.raised,
     msg |-> r.msg, called |-> r.called, strategy |-> r.strategy, hit |-> r.hit,
     owner |-> r.owner, logged |-> r.logged]

(***************************************************************************)
(* POST /translate                                                         *)
(***************************************************************************)
\* "not data": get_json() gave None or an empty object
NoData(data) ==
    \/ data.null
    \/ /\ data.text = Absent /\ data.texts = Absent
       /\ data.target_language = NoLang /\ data.source_language = NoLang
       /\ data.service = NoLang

InternalError(error, message) ==
    [status |-> 500, error |-> error, message |-> message, success |-> FALSE]

ClientError(error) == [status |-> 400, error |-> error]

\* the handler with its arguments; out is what the provider would do if called
translate(data, m, out) ==
    IF NoData(data)
    THEN [resp |-> ClientError("No data provided"), m |-> m, calls |-> <<>>]
    ELSE LET raw == IF data.text = Absent THEN JStr(<<>>) ELSE data.text
         IN IF raw.t # "str"
            THEN [resp |-> InternalError("Internal server error", "no attribute 'strip'"),
                  m |-> m, calls |-> <<>>]
            ELSE
            LET text == strip(raw.s)
                target_language == Get(data.target_language, "es")
                source_language == Get(data.source_language, "auto")
                service == Get(data.service, "google")
            IN IF text = <<>>
               THEN [resp |-> ClientError("Text is required"), m |-> m, calls |-> <<>>]
               ELSE IF Len(text) > MaxTextLen
               THEN [resp |-> ClientError("Text too long (max 5000 characters)"),
                     m |-> m, calls |-> <<>>]
               ELSE
               LET r == cached_translation(m, text, source_language, target_language,
                                           service, out)
                   log == <<CallRec(r, "/translate")>>
               IN IF r.raised
                  THEN [resp |-> InternalError("Internal server error", r.msg),
                        m |-> r.m, calls |-> log]
                  ELSE IF r.ret = NONE
                  THEN [resp |-> [status |-> 500, error |-> "Translation failed"],
                        m |-> r.m, calls |-> log]
                  ELSE [resp |-> [status |-> 200,
                                  original_text |-> text,
                                  translated_text |-> r.ret,
                                  source_language |-> source_language,
                                  target_language |-> target_language,
                                  service_used |-> service,
                                  success |-> TRUE],
                        m |-> r.m, calls |-> log]

\* the last cached_translation call made so far
LastCall(log) == IF log = <<>> THEN prevCall ELSE <<log[Len(log)]>>

Idle == [t \in 1..NThreads |-> [pc |-> "idle"]]

\* the handler's result h becomes the new state
Respond(h) ==
    /\ resp' = h.resp
    /\ cache' = h.m.cache
    /\ useOrder' = h.m.useOrder
    /\ insOrder' = h.m.insOrder
    /\ owners' = h.m.owners
    /\ evictions' = h.m.evictions
    /\ calls' = h.calls
    /\ prevCall' = LastCall(calls)
    /\ UNCHANGED threads

Translate(data, out) ==
    /\ req' = [endpoint |-> "/translate", data |-> data]
    /\ \E h \in {translate(data, Memo, out)} : Respond(h)

(***************************************************************************)
(* POST /batch-translate                                                   *)
(***************************************************************************)
\* Python truthiness of a JSON value
Falsy(v) ==
    \/ v.t \in {"absent", "null"}
    \/ v.t = "str" /\ v.s = <<>>
    \/ v.t = "list" /\ v.items = <<>>

\* the items that get past both checks of the loop body
Dispatched(items) ==
    {i \in DOMAIN items :
        ~Falsy(items[i]) /\ items[i].t = "str" /\ Len(items[i].s) <= MaxTextLen}

Item(i, text, translated, error) ==
    [index |-> i - 1, original_text |-> text, translated_text |-> translated,
     error |-> error]

\* one pass of the loop body for texts[i]; st = [m, results, calls]
batch_item(st, i, text, source_language, target_language, service, outs) ==
    IF Falsy(text) \/ text.t # "str"
    THEN [st EXCEPT !.results = Append(@, Item(i, text, "", "Invalid text"))]
    ELSE IF Len(text.s) > MaxTextLen
    THEN [st EXCEPT !.results = Append(@, Item(i, text, "", "Text too long"))]
    ELSE
    LET arg == strip(text.s)
        r == cached_translation(st.m, arg, source_language, target_language,
                                service, outs[i])
        log == Append(st.calls, CallRec(r, "/batch-translate"))
    IN IF r.raised
       THEN [m |-> r.m, calls |-> log,
             results |-> Append(st.results, Item(i, text, "", r.msg))]
       ELSE [m |-> r.m, calls |-> log,
             results |-> Append(st.results,
                                Item(i, text,
                                     IF r.ret \in {NONE, ""} THEN "" ELSE r.ret,
                                     IF r.ret \in {NONE, ""} THEN "Translation failed"
                                     ELSE NONE))]

\* the loop ends at the first item that has an error
RECURSIVE batch_loop_stops(_, _, _, _, _, _, _)
batch_loop_stops(st, i, items, source_language, target_language, service, outs) ==
    IF i > Len(items) THEN st
    ELSE IF st.results # <<>> /\ st.results[Len(st.results)].error # NONE THEN st
    ELSE batch_loop_stops(batch_item(st, i, items[i], source_language, target_language,
                                     service, outs),
                          i + 1, items, source_language, target_language, service, outs)

\* for i, text in enumerate(texts)
RECURSIVE batch_loop(_, _, _, _, _, _, _)
batch_loop(st, i, items, source_language, target_language, service, outs) ==
    IF i > Len(items) THEN st
    ELSE batch_loop(batch_item(st, i, items[i], source_language, target_language,
                               service, outs),
                    i + 1, items, source_language, target_language, service, outs)

\* the cap is compared one too high
too_many_off_by_one(items) == Len(items) > MaxTexts + 1

\* len(texts) > 100
too_many(items) == Len(items) > MaxTexts

\* the handler with its arguments; outs[i] is what the provider would do
\* if called for texts[i]
batch_translate(data, m, outs) ==
    IF data.null
    THEN [resp |-> InternalError("Batch translation failed", "no attribute 'get'"),
          m |-> m, calls |-> <<>>]
    ELSE
    LET texts == IF data.texts = Absent THEN JList(<<>>) ELSE data.texts
        target_language == Get(data.target_language, "es")
        source_language == Get(data.source_language, "auto")
        service == Get(data.service, "google")
    IN IF Falsy(texts) \/ texts.t # "list"
       THEN [resp |-> ClientError("Texts array is required"), m |-> m, calls |-> <<>>]
       ELSE IF too_many(texts.items)
       THEN [resp |-> ClientError("Too many texts (max 100)"), m |-> m, calls |-> <<>>]
       ELSE
       LET st == batch_loop([m |-> m, results |-> <<>>, calls |-> <<>>], 1, texts.items,
                            source_language, target_language, service, outs)
       IN [resp |-> [status |-> 200,
                     results |-> st.results,
                     total_processed |-> Len(st.results),
                     success |-> TRUE],
           m |-> st.m, calls |-> st.calls]

BatchTranslate(data, outs) ==
    /\ req' = [endpoint |-> "/batch-translate", data |-> data]
    /\ \E h \in {batch_translate(data, Memo, outs)} : Respond(h)

(***************************************************************************)
(* Requests                                                                *)
(***************************************************************************)
TooLong == [i \in 1..(MaxTextLen + 1) |-> "a"]

\* the shapes of text the checks tell apart: empty, blank, within the cap
\* (bare or padded), over the cap (bare or padded)
RawTexts ==
    {<<>>, <<" ">>, <<"a">>, <<" ", "a">>, <<"a", " ">>, TooLong, <<" ">> \o TooLong}

Body(text, texts, tgt, service) ==
    [null |-> FALSE, text |-> text, texts |-> texts, target_language |-> tgt,
     source_language |-> NoLang, service |-> service]

NullBody == [Body(Absent, Absent, NoLang, NoLang) EXCEPT !.null = TRUE]
EmptyBody == Body(Absent, Absent, NoLang, NoLang)

\* /translate bodies that exercise the cache: one text under every service
\* name, and the same text padded
CacheBodies ==
    {Body(JStr(<<"a">>), Absent, NoLang, service) : service \in Services \cup {NoLang}}
    \cup {Body(JStr(<<" ", "a">>), Absent, NoLang, NoLang)}

\* /batch-translate bodies that exercise the cache: the same text, once or
\* twice
CacheBatchBodies ==
    {Body(Absent, JList([i \in 1..n |-> JStr(<<"a">>)]), NoLang, service) :
        n \in {1, 2}, service \in {NoLang, "deepl"}}

\* /translate bodies that exercise the validation
TranslateBodies ==
    {NullBody, EmptyBody}
    \cup {Body(JStr(s), Absent, NoLang, NoLang) : s \in RawTexts}
    \cup {Body(text, Absent, tgt, NoLang) :
            text \in {JNum, JStr(<<"a">>)}, tgt \in {NoLang, Unhashable}}

Items == {JStr(<<>>), JStr(<<" ">>), JStr(<<"a">>), JStr(TooLong)}

\* x, y, x, y, ... of length n
Alternating(x, y, n) == [i \in 1..n |-> IF i % 2 = 1 THEN x ELSE y]

\* every list of one or two items, longer ones alternating two items, and
\* lists one over the cap
ItemLists ==
    {Alternating(x, y, n) : x \in Items, y \in Items, n \in 1..MaxTexts}
    \cup {Alternating(x, x, MaxTexts + 1) : x \in Items}
    \cup {<<JNum>>, <<JNull, JStr(<<"a">>)>>}

BatchBodies ==
    {NullBody, EmptyBody}
    \cup {Body(Absent, texts, NoLang, NoLang) :
            texts \in {JNull, JNum, JStr(<<"a">>), JList(<<>>)}}
    \cup {Body(Absent, JList(l), NoLang, NoLang) : l \in ItemLists}
    \cup {Body(Absent, JList(l), Unhashable, NoLang) :
            l \in {<<JStr(<<"a">>)>>, <<JStr(<<" ">>), JStr(<<"a">>)>>}}

\* the provider outcomes to choose for the items of a body that would be dispatched
OutcomeChoices(data) ==
    IF data.texts.t = "list" THEN [Dispatched(data.texts.items) -> Outcomes]
    ELSE {<<>>}

Init ==
    /\ cache = <<>>
    /\ resp = [status |-> 0]
    /\ req = [endpoint |-> "", data |-> NullBody]
    /\ threads = Idle
    /\ calls = <<>>
    /\ prevCall = <<>>
    /\ useOrder = <<>>
    /\ insOrder = <<>>
    /\ owners = <<>>
    /\ evictions = <<>>

\* the cache under repeated requests for one text, handled one at a time
NextCache ==
    \/ \E data \in CacheBodies, out \in Outcomes : Translate(data, out)
    \/ \E data \in CacheBatchBodies : \E outs \in OutcomeChoices(data) :
          BatchTranslate(data, outs)

SpecCache == Init /\ [][NextCache]_vars

\* both endpoints, handled one at a time
Next ==
    \/ \E data \in TranslateBodies, out \in Outcomes : Translate(data, out)
    \/ \E data \in BatchBodies : \E outs \in OutcomeChoices(data) : BatchTranslate(data, outs)

Spec == Init /\ [][Next]_vars

(***************************************************************************)
(* Interleaved handlers.  The server handles each request on its own       *)
(* thread; lru_cache looks the key up and stores the result atomically,    *)
(* and calls the wrapped function (the provider call) in between, outside  *)
(* its lock.  A thread holds the arguments of the cached_translation       *)
(* calls its handler has still to make; responses and the history          *)
(* variables are not kept here.                                            *)
(***************************************************************************)
EmptyMemo ==
    [cache |-> <<>>, useOrder |-> <<>>, insOrder |-> <<>>, owners |-> <<>>,
     evictions |-> <<>>]

\* the arguments of the cached_translation calls a handler makes, in order
\* (they depend neither on the cache nor on the provider)
CallArgs(endpoint, data) ==
    LET h == IF endpoint = "/translate"
             THEN translate(data, EmptyMemo, CHOOSE o \in Outcomes : TRUE)
             ELSE batch_translate(data, EmptyMemo,
                                  [i \in 1..(MaxTexts + 1) |-> CHOOSE o \in Outcomes : TRUE])
    IN [i \in DOMAIN h.calls |-> h.calls[i].args]

Continue(t, rest) ==
    threads' = [threads EXCEPT ![t] =
                   IF rest = <<>> THEN [pc |-> "idle"] ELSE [pc |-> "lookup", args |-> rest]]

\* a request arrives and is validated
Begin(t, endpoint, data) ==
    /\ threads[t].pc = "idle"
    /\ Continue(t, CallArgs(endpoint, data))
    /\ UNCHANGED <<cache, resp, req, calls, prevCall, useOrder, insOrder, owners, evictions>>

\* lru_cache wrapper, first half: hash the key and look it up
Lookup(t) ==
    /\ threads[t].pc = "lookup"
    /\ LET args == Head(threads[t].args)
           key == make_key(args[1], args[2], args[3], args[4])
           rest == Tail(threads[t].args)
       IN IF ~Hashable(args)
          THEN Continue(t, rest) /\ UNCHANGED cache
          ELSE IF key \in CacheKeys(cache)
          THEN Continue(t, rest) /\ cache' = lru_hit(cache, key)
          ELSE threads' = [threads EXCEPT ![t].pc = "provider"] /\ UNCHANGED cache
    /\ UNCHANGED <<resp, req, calls, prevCall, useOrder, insOrder, owners, evictions>>

\* the provider call ends; lru_cache wrapper, second half: store the result
Return(t, out) ==
    /\ threads[t].pc = "provider"
    /\ LET args == Head(threads[t].args)
           key == make_key(args[1], args[2], args[3], args[4])
           r == translation_body(select_translator(args[4]), out)
       IN /\ cache' = IF r.raised THEN cache ELSE lru_insert(cache, key, r.ret)
          /\ Continue(t, Tail(threads[t].args))
    /\ UNCHANGED <<resp, req, calls, prevCall, useOrder, insOrder, owners, evictions>>

ConcTranslateBodies ==
    {Body(JStr(<<"a">>), Absent, NoLang, service) : service \in Services}

ConcBatchBodies ==
    {Body(Absent, JList([i \in 1..n |-> JStr(<<"a">>)]), NoLang, "deepl") : n \in {1, 2}}
    \cup {Body(Absent, JList(<<JStr(<<"a">>)>>), Unhashable, NoLang)}

NextConc ==
    \E t \in 1..NThreads :
        \/ \E data \in ConcTranslateBodies : Begin(t, "/translate", data)
        \/ \E data \in ConcBatchBodies : Begin(t, "/batch-translate", data)
        \/ Lookup(t)
        \/ \E out \in Outcomes : Return(t, out)

SpecConc == Init /\ [][NextConc]_vars


(***************************************************************************)
(* Properties                                                              *)
(***************************************************************************)
\* the cached_translation calls in order, the last earlier one first
AllCalls == prevCall \o calls

\* a call that returned None
Failed(c) == ~c.raised /\ c.ret = NONE

IsBatch == req.endpoint = "/batch-translate"
IsTranslate == req.endpoint = "/translate"
BatchDone == IsBatch /\ resp.status = 200
TextsOf == req.data.texts.items

\* a batch item the claims call valid: a non-empty string within the cap
ValidItem(v) == v.t = "str" /\ v.s # <<>> /\ Len(v.s) <= MaxTextLen

\* the call made for the valid item at position i of the last batch
CallOf(i) == calls[Cardinality({j \in 1..i : ValidItem(TextsOf[j])})]

KnownServices == {"google", "microsoft", "mymemory"}

\* C1: after a call of cached_translation whose provider call failed, the next
\* call with the same four arguments invokes the provider again
C1_FailureRetried ==
    \A i \in 1..(Len(AllCalls) - 1) :
        (Failed(AllCalls[i]) /\ AllCalls[i + 1].args = AllCalls[i].args)
            => AllCalls[i + 1].called

\* C2: a call that immediately follows a successful call with the same four
\* arguments makes no provider call and returns the same value
C2_HitIdempotent ==
    \A i \in 1..(Len(AllCalls) - 1) :
        (~Failed(AllCalls[i]) /\ ~AllCalls[i].raised
         /\ AllCalls[i + 1].args = AllCalls[i].args)
            => /\ ~AllCalls[i + 1].called
               /\ ~AllCalls[i + 1].raised
               /\ AllCalls[i + 1].ret = AllCalls[i].ret

\* a /translate call that reached the provider and succeeded is followed at once
\* by a /batch-translate item with the same trimmed text, answered from the cache
C2_Witness ==
    /\ BatchDone
    /\ prevCall # <<>> /\ calls # <<>>
    /\ prevCall[1].endpoint = "/translate"
    /\ prevCall[1].called /\ prevCall[1].ret = "x"
    /\ calls[1].args = prevCall[1].args
    /\ calls[1].hit /\ calls[1].ret = "x"

C4_CacheBounded ==
    /\ Len(cache) <= maxsize
    /\ \A i, j \in DOMAIN cache : cache[i].key = cache[j].key => i = j

\* the cache is full, and a thread that missed is still in its provider call
\* while another thread has stored the same key
C4_Witness ==
    /\ Len(cache) = maxsize
    /\ \E t \in 1..NThreads :
          /\ threads[t].pc = "provider"
          /\ LET a == Head(threads[t].args)
             IN make_key(a[1], a[2], a[3], a[4]) \in CacheKeys(cache)

\* C5: every text passed to cached_translation is non-empty and within the cap,
\* and an empty or whitespace-only text is reported invalid without a call
C5_OnlyValidTextsDispatched ==
    /\ \A i \in DOMAIN calls :
          calls[i].args[1] # <<>> /\ Len(calls[i].args[1]) <= MaxTextLen
    /\ (IsTranslate /\ ~NoData(req.data) /\ req.data.text.t = "str"
        /\ strip(req.data.text.s) = <<>>)
          => (resp = ClientError("Text is required") /\ calls = <<>>)
    /\ BatchDone =>
          \A i \in DOMAIN TextsOf :
              (TextsOf[i].t = "str" /\ strip(TextsOf[i].s) = <<>>)
                  => resp.results[i].error = "Invalid text"

\* C6: an accepted batch of n texts answers with n results in input order,
\* whatever fails, and every valid item is dispatched
C6_BatchOrdered ==
    (IsBatch /\ ~req.data.null /\ req.data.texts.t = "list"
     /\ Len(TextsOf) \in 1..MaxTexts)
        => /\ resp.status = 200
           /\ Len(resp.results) = Len(TextsOf)
           /\ resp.total_processed = Len(TextsOf)
           /\ \A i \in DOMAIN TextsOf :
                 /\ resp.results[i].index = i - 1
                 /\ resp.results[i].original_text = TextsOf[i]
           /\ Len(calls) = Cardinality({i \in DOMAIN TextsOf : ValidItem(TextsOf[i])})
           /\ \A i \in DOMAIN TextsOf :
                 ValidItem(TextsOf[i]) => CallOf(i).args[1] = strip(TextsOf[i].s)

\* a full-size batch whose first item failed and whose last item was translated
C6_Witness ==
    /\ BatchDone
    /\ Len(TextsOf) = MaxTexts
    /\ resp.results[1].error # NONE
    /\ resp.results[MaxTexts].error = NONE
    /\ resp.results[MaxTexts].translated_text = "x"

\* a batch body that fails as a whole
Structural(data) ==
    /\ ~data.null
    /\ \/ data.texts.t # "list"
       \/ data.texts.items = <<>>
       \/ Len(data.texts.items) > MaxTexts

\* C7: a batch whose texts is empty, not a list or over the cap gets one
\* top-level error, makes no cached_translation call and leaves the cache alone
C7_StructuralFailure ==
    [][(req'.endpoint = "/batch-translate" /\ Structural(req'.data))
          => /\ resp'.status = 400
             /\ resp'.error \in {"Texts array is required", "Too many texts (max 100)"}
             /\ calls' = <<>>
             /\ cache' = cache]_vars

\* an over-long batch of dispatchable texts was refused with entries in the cache
C7_Witness ==
    /\ IsBatch
    /\ req.data.texts.t = "list"
    /\ Len(TextsOf) > MaxTexts
    /\ ValidItem(TextsOf[1])
    /\ resp = ClientError("Too many texts (max 100)")
    /\ cache # <<>>

\* C8: a call is answered from the cache only by an entry that a call with
\* the same four arguments, service included, stored; otherwise it goes to
\* the provider itself
C8_ServiceInKey ==
    \A i \in DOMAIN calls :
        /\ calls[i].hit => calls[i].owner = calls[i].args
        /\ (~calls[i].hit /\ ~calls[i].raised) => calls[i].called

\* a text cached under one service, then asked for under another: a provider call
C8_Witness ==
    /\ prevCall # <<>> /\ calls # <<>>
    /\ prevCall[1].args[1] = calls[1].args[1]
    /\ prevCall[1].args[4] # calls[1].args[4]
    /\ prevCall[1].ret = "x"
    /\ calls[1].called
    /\ cache # <<>> /\ \E i \in DOMAIN cache : cache[i].key = prevCall[1].args

\* C9: a request naming an unknown service is dispatched to the Google
\* strategy and fails only as any provider failure does
C9_UnknownFallsBack ==
    \A i \in DOMAIN calls :
        calls[i].args[4] \notin KnownServices
            => /\ calls[i].called => calls[i].strategy = "GoogleTranslator"
               /\ ~calls[i].raised
               /\ (IsTranslate /\ calls[i].ret # NONE) => resp.status = 200
               /\ (IsTranslate /\ calls[i].ret = NONE)
                     => resp = [status |-> 500, error |-> "Translation failed"]

\* a request for an unknown service was translated by the Google strategy
C9_Witness ==
    /\ IsTranslate
    /\ calls # <<>>
    /\ calls[1].args[4] = "deepl"
    /\ calls[1].called /\ calls[1].strategy = "GoogleTranslator"
    /\ resp.status = 200 /\ resp.service_used = "deepl"

====
